---- MODULE Spec2Model ----
(***************************************************************************)
(* Model of roteamento_entregas.py: the four Dijkstra strategies over the  *)
(* sparse and the dense graph, the greedy allocator planejar_rotas, the    *)
(* graph scaling functions and the benchmark harness.                      *)
(*                                                                         *)
(* Numbers.  Every quantity the program computes with (distances, hours,   *)
(* scale factors) is an IEEE-754 binary64 value or a Python int below      *)
(* 2^27, which binary64 represents exactly and on which int and float      *)
(* arithmetic agree.  The model therefore carries every such quantity as   *)
(* a binary64 value <<s, e, hi, lo>>: sign s, unbiased exponent e and the  *)
(* 53-bit significand hi * 2^27 + lo, so that the value is                 *)
(* s * (hi * 2^27 + lo) * 2^(e - 52).  The operations round to nearest,    *)
(* ties to even, as the hardware does.  Weights and deadlines that the     *)
(* program only ever holds as ints (peso, prazo, capacidade) stay ints.    *)
(***************************************************************************)
EXTENDS Integers, Sequences, FiniteSets, TLC

\* ------------------------------------------------------------------------
\* binary64 arithmetic
\* ------------------------------------------------------------------------
B27 == 134217728
H26 == 67108864
H25 == 33554432
B14 == 16384
B13 == 8192

DZero == <<1, -2000, 0, 0>>
DInf == <<1, 2000, 0, 0>>

Pow2(n) == 2 ^ n

\* the number of bits of 0 <= n < 2^(2k), k a power of two, by halving
RECURSIVE BitLenAte(_, _)
BitLenAte(n, k) ==
    IF k = 0 THEN n
    ELSE IF n >= Pow2(k) THEN k + BitLenAte(n \div Pow2(k), k \div 2)
    ELSE BitLenAte(n, k \div 2)

BitLen(n) == BitLenAte(n, 16)

\* A 108-bit working integer <<w0, w1, w2, w3, st>>: four 27-bit limbs, most
\* significant first, and a sticky flag for bits lost below the last limb.
ShrLimb(w) ==
    <<0, w[1], w[2], w[3], IF w[4] # 0 \/ w[5] # 0 THEN 1 ELSE 0>>

RECURSIVE Shr4(_, _)
Shr4(w, n) ==
    IF n >= 27 THEN Shr4(ShrLimb(w), n - 27)
    ELSE IF n = 0 THEN w
    ELSE LET P == Pow2(n)
             Q == Pow2(27 - n)
         IN  << w[1] \div P,
                (w[1] % P) * Q + (w[2] \div P),
                (w[2] % P) * Q + (w[3] \div P),
                (w[3] % P) * Q + (w[4] \div P),
                IF w[5] # 0 \/ (w[4] % P) # 0 THEN 1 ELSE 0 >>

RECURSIVE Shl4(_, _)
Shl4(w, n) ==
    IF n >= 27 THEN Shl4(<<w[2], w[3], w[4], 0, w[5]>>, n - 27)
    ELSE IF n = 0 THEN w
    ELSE LET P == Pow2(27 - n)
             Q == Pow2(n)
         IN  << (w[1] % P) * Q + (w[2] \div P),
                (w[2] % P) * Q + (w[3] \div P),
                (w[3] % P) * Q + (w[4] \div P),
                (w[4] % P) * Q,
                w[5] >>

BitLen4(w) ==
    IF w[1] # 0 THEN 81 + BitLen(w[1])
    ELSE IF w[2] # 0 THEN 54 + BitLen(w[2])
    ELSE IF w[3] # 0 THEN 27 + BitLen(w[3])
    ELSE BitLen(w[4])

Add4(a, b) ==
    LET t3 == a[4] + b[4]
        t2 == a[3] + b[3] + (t3 \div B27)
        t1 == a[2] + b[2] + (t2 \div B27)
        t0 == a[1] + b[1] + (t1 \div B27)
    IN  <<t0, t1 % B27, t2 % B27, t3 % B27,
          IF a[5] # 0 \/ b[5] # 0 THEN 1 ELSE 0>>

\* a - b for a > b; bits of b lost below the last limb borrow one unit
Sub4(a, b) ==
    LET t3 == a[4] - b[4] - b[5]
        c3 == IF t3 < 0 THEN 1 ELSE 0
        t2 == a[3] - b[3] - c3
        c2 == IF t2 < 0 THEN 1 ELSE 0
        t1 == a[2] - b[2] - c2
        c1 == IF t1 < 0 THEN 1 ELSE 0
        t0 == a[1] - b[1] - c1
    IN  <<t0, t1 + c1 * B27, t2 + c2 * B27, t3 + c3 * B27, b[5]>>

\* the significand hi, lo1 after rounding, lo1 = B27 carrying into hi
RoundCarry(s, e, hi, lo1) ==
    IF lo1 # B27 THEN <<s, e, hi, lo1>>
    ELSE IF hi + 1 = H26 THEN <<s, e + 1, H25, 0>>
    ELSE <<s, e, hi + 1, 0>>

\* v is the working integer with its leading bit at bit 106: the first two
\* limbs are the significand, the third starts with the rounding bit
RoundBits(s, v, e) ==
    RoundCarry(s, e, v[1],
               IF \/ v[3] > H26
                  \/ /\ v[3] = H26
                     /\ (v[4] # 0 \/ v[5] # 0 \/ v[2] % 2 = 1)
               THEN v[2] + 1 ELSE v[2])

\* L is the number of bits of w
RoundAt(s, w, ew, L) ==
    RoundBits(s, IF L <= 107 THEN Shl4(w, 107 - L) ELSE Shr4(w, 1),
              ew + (L - 107) + 106)

\* round s * W * 2^ew to binary64, nearest, ties to even
RoundNorm(s, w, ew) ==
    IF w[1] = 0 /\ w[2] = 0 /\ w[3] = 0 /\ w[4] = 0 THEN DZero
    ELSE RoundAt(s, w, ew, BitLen4(w))

FromInt(n) ==
    IF n < 0 THEN RoundNorm(-1, <<0, 0, 0, -n, 0>>, 0)
    ELSE RoundNorm(1, <<0, 0, 0, n, 0>>, 0)

MagLt(x, y) ==
    \/ x[2] < y[2]
    \/ x[2] = y[2] /\ x[3] < y[3]
    \/ x[2] = y[2] /\ x[3] = y[3] /\ x[4] < y[4]

FLt(x, y) ==
    IF x[1] # y[1] THEN x[1] < y[1]
    ELSE IF x[1] = 1 THEN MagLt(x, y) ELSE MagLt(y, x)

FLe(x, y) == x = y \/ FLt(x, y)

FNeg(x) == IF x = DZero THEN x ELSE <<-x[1], x[2], x[3], x[4]>>

\* |x| + |y| for finite nonzero x, y with |x| >= |y|
MagAdd(s, x, y) ==
    IF x[2] - y[2] > 110 THEN <<s, x[2], x[3], x[4]>>
    ELSE RoundNorm(s,
                   Add4(<<x[3], x[4], 0, 0, 0>>,
                        Shr4(<<y[3], y[4], 0, 0, 0>>, x[2] - y[2])),
                   x[2] - 106)

\* |x| - |y| for finite nonzero x, y with |x| > |y|
MagSub(s, x, y) ==
    IF x[2] - y[2] > 110 THEN <<s, x[2], x[3], x[4]>>
    ELSE RoundNorm(s,
                   Sub4(<<x[3], x[4], 0, 0, 0>>,
                        Shr4(<<y[3], y[4], 0, 0, 0>>, x[2] - y[2])),
                   x[2] - 106)

FAdd(x, y) ==
    IF x = DZero THEN y
    ELSE IF y = DZero THEN x
    ELSE IF x[2] = 2000 THEN x
    ELSE IF y[2] = 2000 THEN y
    ELSE IF x[1] = y[1]
         THEN IF MagLt(x, y) THEN MagAdd(x[1], y, x) ELSE MagAdd(x[1], x, y)
    ELSE IF x[2] = y[2] /\ x[3] = y[3] /\ x[4] = y[4] THEN DZero
    ELSE IF MagLt(x, y) THEN MagSub(y[1], y, x) ELSE MagSub(x[1], x, y)

FSub(x, y) == FAdd(x, FNeg(y))

\* n * (hi * 2^27 + lo) for 0 <= n < 2^14, as a working integer
MulSmall(n, y) ==
    LET lh == y[4] \div B14
        ll == y[4] % B14
        hh == y[3] \div B13
        hl == y[3] % B13
        A  == n * lh
        t  == (A % B13) * B14 + n * ll
        c2 == (t \div B27) + (A \div B13)
        C  == n * hh
        u  == (C % B14) * B13 + n * hl + c2
    IN  <<0, (u \div B27) + (C \div B14), u % B27, t % B27, 0>>

MulChunk(n, y, k) ==
    IF n = 0 THEN <<0, 0, 0, 0, 0>> ELSE Shl4(MulSmall(n, y), k)

FMul(x, y) ==
    IF x = DZero \/ y = DZero THEN DZero
    ELSE IF x[2] = 2000 \/ y[2] = 2000 THEN <<x[1] * y[1], 2000, 0, 0>>
    ELSE RoundNorm(x[1] * y[1],
                   Add4(Add4(MulChunk(x[3] \div B13, y, 40),
                             MulChunk(x[3] % B13, y, 27)),
                        Add4(MulChunk(x[4] \div B14, y, 14),
                             MulChunk(x[4] % B14, y, 0))),
                   x[2] - 52 + y[2] - 52)

\* x / n for an int 0 < n < 2^16 (the program divides by 50 and by 1024)
DivLimb(r, limb, n) ==
    LET t1 == r * B13 + (limb \div B14)
        t2 == (t1 % n) * B14 + (limb % B14)
    IN  <<(t1 \div n) * B14 + (t2 \div n), t2 % n>>

FDivInt(x, n) ==
    IF x = DZero \/ x[2] = 2000 THEN x
    ELSE LET q0 == DivLimb(0, x[3], n)
             q1 == DivLimb(q0[2], x[4], n)
             q2 == DivLimb(q1[2], 0, n)
             q3 == DivLimb(q2[2], 0, n)
         IN  RoundNorm(x[1],
                       <<q0[1], q1[1], q2[1], q3[1],
                         IF q3[2] # 0 THEN 1 ELSE 0>>,
                       x[2] - 106)


\* ------------------------------------------------------------------------
\* the distance table and the two graph representations
\* ------------------------------------------------------------------------
cidades_destino ==
    << "Rio de Janeiro", "Porto Alegre", "Salvador", "Manaus", "Curitiba",
       "Natal", "Goiânia", "Fortaleza", "Belo Horizonte", "Vitória" >>

centros_distribuicao ==
    << "Belém", "Recife", "Brasília", "São Paulo", "Florianópolis" >>

\* row c, column d: the distance of (centros_distribuicao[c], cidades_destino[d])
TabelaKm ==
    << <<3200, 4000, 2100, 2500, 3800, 1900, 2000, 1600, 3000, 3100>>,
       <<2300, 3600,  800, 4300, 3400,  300, 2400,  800, 2400, 2200>>,
       <<1150, 2100, 1500, 3900, 1400, 2200,  210, 2200,  740, 1300>>,
       << 450, 1100, 2000, 4300,  400, 2900,  900, 3000,  590,  880>>,
       <<1100,  470, 2500, 4600,  650, 3200, 1800, 3500, 1500,  500>> >>

Range(seq) == {seq[i] : i \in 1..Len(seq)}

IndexOf(seq, x) == CHOOSE i \in 1..Len(seq) : seq[i] = x

from_distancias ==
    [p \in Range(centros_distribuicao) \X Range(cidades_destino) |->
        FromInt(TabelaKm[IndexOf(centros_distribuicao, p[1])]
                        [IndexOf(cidades_destino, p[2])])]

\* the order of str on the node identifiers (code points, as Python compares)
OrdemNos ==
    << "Belo Horizonte", "Belém", "Brasília", "Curitiba", "Florianópolis",
       "Fortaleza", "Goiânia", "Manaus", "Natal", "Porto Alegre", "Recife",
       "Rio de Janeiro", "Salvador", "São Paulo", "Vitória", "a", "b", "c",
       "d" >>

Rank == [n \in Range(OrdemNos) |-> IndexOf(OrdemNos, n)]

gerar_lista_adjacencia ==
    [n \in Range(centros_distribuicao) \cup Range(cidades_destino) |->
        IF n \in Range(centros_distribuicao)
        THEN [j \in 1..Len(cidades_destino) |->
                 <<cidades_destino[j], from_distancias[<<n, cidades_destino[j]>>]>>]
        ELSE [i \in 1..Len(centros_distribuicao) |->
                 <<centros_distribuicao[i],
                   from_distancias[<<centros_distribuicao[i], n>>]>>]]

\* gerar_matriz_adjacencia returns (matriz, idx, nodes)
NodesTabela == centros_distribuicao \o cidades_destino

IdxTabela == [n \in Range(NodesTabela) |-> IndexOf(NodesTabela, n)]

\* gerar_matriz_adjacencia filling both directions, as the sparse form does
gerar_matriz_simetrica ==
    << [i \in 1..Len(NodesTabela) |->
          [j \in 1..Len(NodesTabela) |->
              IF NodesTabela[i] \in Range(centros_distribuicao)
                 /\ NodesTabela[j] \in Range(cidades_destino)
              THEN from_distancias[<<NodesTabela[i], NodesTabela[j]>>]
              ELSE IF NodesTabela[j] \in Range(centros_distribuicao)
                      /\ NodesTabela[i] \in Range(cidades_destino)
              THEN from_distancias[<<NodesTabela[j], NodesTabela[i]>>]
              ELSE DInf]],
       IdxTabela, NodesTabela >>

gerar_matriz_adjacencia ==
    << [i \in 1..Len(NodesTabela) |->
          [j \in 1..Len(NodesTabela) |->
              IF NodesTabela[i] \in Range(centros_distribuicao)
                 /\ NodesTabela[j] \in Range(cidades_destino)
              THEN from_distancias[<<NodesTabela[i], NodesTabela[j]>>]
              ELSE DInf]],
       IdxTabela, NodesTabela >>

\* ------------------------------------------------------------------------
\* the four shortest-path strategies
\* ------------------------------------------------------------------------
RemoveAt(seq, i) == SubSeq(seq, 1, i - 1) \o SubSeq(seq, i + 1, Len(seq))

\* tuple order of (dist, no): distance first, then the identifier
TupleLt(a, b) ==
    FLt(a[1], b[1]) \/ (a[1] = b[1] /\ Rank[a[2]] < Rank[b[2]])

\* heapq.heappop takes the least tuple out of the heap: its position in
\* heap[lo..hi]
RECURSIVE heappop(_, _, _)
heappop(heap, lo, hi) ==
    IF lo = hi THEN lo
    ELSE LET mid == (lo + hi) \div 2
             a == heappop(heap, lo, mid)
             b == heappop(heap, mid + 1, hi)
         IN  IF TupleLt(heap[b], heap[a]) THEN b ELSE a

\* the scan taking the oldest entry instead of the least
MinFilaPrimeiro(fila, lo, hi) == lo

\* min(fila, key = lambda x: x[0]): the first entry of least distance in
\* fila[lo..hi]
RECURSIVE MinFila(_, _, _)
MinFila(fila, lo, hi) ==
    IF lo = hi THEN lo
    ELSE LET mid == (lo + hi) \div 2
             a == MinFila(fila, lo, mid)
             b == MinFila(fila, mid + 1, hi)
         IN  IF FLt(fila[b][1], fila[a][1]) THEN b ELSE a

\* fila.remove(x): drops the first entry equal to x
ListRemove(fila, x) ==
    RemoveAt(fila, CHOOSE i \in 1..Len(fila) :
                       fila[i] = x /\ \A j \in 1..(i - 1) : fila[j] # x)

AdjDe(grafo, no) == IF no \in DOMAIN grafo THEN grafo[no] ELSE <<>>

\* the for loop over grafo.get(no, []): one candidate per unvisited neighbour
PushLista(adj, dist_atual, visitados) ==
    LET abertos == SelectSeq(adj, LAMBDA p : p[1] \notin visitados)
    IN  [k \in 1..Len(abertos) |->
            <<FAdd(dist_atual, abertos[k][2]), abertos[k][1]>>]

\* the for loop over enumerate(matriz[i]): finite cells of unvisited nodes
PushMatriz(linha, nos, dist_atual, visitados) ==
    LET js == SelectSeq([j \in 1..Len(linha) |-> j],
                        LAMBDA j : linha[j] # DInf /\ nos[j] \notin visitados)
    IN  [k \in 1..Len(js) |->
            <<FAdd(dist_atual, linha[js[k]]), nos[js[k]]>>]

\* The state of a search: the frontier, the visited set, and once the
\* function has returned, fim = TRUE with the value returned.
Busca0(o) == [fila |-> <<<<DZero, o>>>>, visitados |-> {}, fim |-> FALSE,
              ret |-> DInf]

Retorna(st, v) == [st EXCEPT !.fim = TRUE, !.ret = v]

\* every iteration of a while loop pops one candidate and every candidate
\* but the first was pushed for one edge
NumArestas(grafo) ==
    Cardinality(UNION {{n} \X (1..Len(grafo[n])) : n \in DOMAIN grafo})

NumCelulas(matriz) == Len(matriz) * Len(matriz)

\* one iteration of the while loop of dijkstra_lista_heap
PassoListaHeap(grafo, destino_, st) ==
    IF st.fim THEN st
    ELSE IF st.fila = <<>> THEN Retorna(st, DInf)
    ELSE LET i == heappop(st.fila, 1, Len(st.fila))
             dist_atual == st.fila[i][1]
             no == st.fila[i][2]
             resto == RemoveAt(st.fila, i)
         IN  IF no = destino_ THEN Retorna(st, dist_atual)
             ELSE IF no \in st.visitados THEN [st EXCEPT !.fila = resto]
             ELSE [st EXCEPT
                     !.fila = resto \o PushLista(AdjDe(grafo, no), dist_atual,
                                                 st.visitados \cup {no}),
                     !.visitados = st.visitados \cup {no}]

RECURSIVE LoopListaHeap(_, _, _, _)
LoopListaHeap(grafo, destino_, st, n) ==
    IF st.fim THEN st
    ELSE IF n <= 1 THEN PassoListaHeap(grafo, destino_, st)
    ELSE LoopListaHeap(grafo, destino_,
                       LoopListaHeap(grafo, destino_, st, n \div 2),
                       n - (n \div 2))

dijkstra_lista_heap(grafo, origem_, destino_) ==
    LoopListaHeap(grafo, destino_, Busca0(origem_), NumArestas(grafo) + 2).ret

\* one iteration of the while loop of dijkstra_lista_simples
PassoListaSimples(grafo, destino_, st) ==
    IF st.fim THEN st
    ELSE IF st.fila = <<>> THEN Retorna(st, DInf)
    ELSE LET m == st.fila[MinFila(st.fila, 1, Len(st.fila))]
             dist_atual == m[1]
             no == m[2]
             resto == ListRemove(st.fila, m)
         IN  IF no = destino_ THEN Retorna(st, dist_atual)
             ELSE IF no \in st.visitados THEN [st EXCEPT !.fila = resto]
             ELSE [st EXCEPT
                     !.fila = resto \o PushLista(AdjDe(grafo, no), dist_atual,
                                                 st.visitados \cup {no}),
                     !.visitados = st.visitados \cup {no}]

RECURSIVE LoopListaSimples(_, _, _, _)
LoopListaSimples(grafo, destino_, st, n) ==
    IF st.fim THEN st
    ELSE IF n <= 1 THEN PassoListaSimples(grafo, destino_, st)
    ELSE LoopListaSimples(grafo, destino_,
                          LoopListaSimples(grafo, destino_, st, n \div 2),
                          n - (n \div 2))

dijkstra_lista_simples(grafo, origem_, destino_) ==
    LoopListaSimples(grafo, destino_, Busca0(origem_),
                     NumArestas(grafo) + 2).ret

\* one iteration of the while loop of dijkstra_matriz_heap
PassoMatrizHeap(matriz, idx, nodes, destino_, st) ==
    IF st.fim THEN st
    ELSE IF st.fila = <<>> THEN Retorna(st, DInf)
    ELSE LET i == heappop(st.fila, 1, Len(st.fila))
             dist_atual == st.fila[i][1]
             no == st.fila[i][2]
             resto == RemoveAt(st.fila, i)
         IN  IF no = destino_ THEN Retorna(st, dist_atual)
             ELSE IF no \in st.visitados THEN [st EXCEPT !.fila = resto]
             ELSE [st EXCEPT
                     !.fila = resto \o PushMatriz(matriz[idx[no]], nodes,
                                 dist_atual, st.visitados \cup {no}),
                     !.visitados = st.visitados \cup {no}]

RECURSIVE LoopMatrizHeap(_, _, _, _, _, _)
LoopMatrizHeap(matriz, idx, nodes, destino_, st, n) ==
    IF st.fim THEN st
    ELSE IF n <= 1 THEN PassoMatrizHeap(matriz, idx, nodes, destino_, st)
    ELSE LoopMatrizHeap(matriz, idx, nodes, destino_,
                        LoopMatrizHeap(matriz, idx, nodes, destino_, st,
                            n \div 2),
                        n - (n \div 2))

dijkstra_matriz_heap(matriz, idx, nodes, origem_, destino_) ==
    LoopMatrizHeap(matriz, idx, nodes, destino_, Busca0(origem_),
                   NumCelulas(matriz) + 2).ret

\* one iteration of the while loop of dijkstra_matriz_simples
PassoMatrizSimples(matriz, idx, nodes, destino_, st) ==
    IF st.fim THEN st
    ELSE IF st.fila = <<>> THEN Retorna(st, DInf)
    ELSE LET m == st.fila[MinFila(st.fila, 1, Len(st.fila))]
             dist_atual == m[1]
             no == m[2]
             resto == ListRemove(st.fila, m)
         IN  IF no = destino_ THEN Retorna(st, dist_atual)
             ELSE IF no \in st.visitados THEN [st EXCEPT !.fila = resto]
             ELSE [st EXCEPT
                     !.fila = resto \o PushMatriz(matriz[idx[no]], nodes,
                                 dist_atual, st.visitados \cup {no}),
                     !.visitados = st.visitados \cup {no}]

RECURSIVE LoopMatrizSimples(_, _, _, _, _, _)
LoopMatrizSimples(matriz, idx, nodes, destino_, st, n) ==
    IF st.fim THEN st
    ELSE IF n <= 1 THEN PassoMatrizSimples(matriz, idx, nodes, destino_, st)
    ELSE LoopMatrizSimples(matriz, idx, nodes, destino_,
                           LoopMatrizSimples(matriz, idx, nodes, destino_, st,
                               n \div 2),
                           n - (n \div 2))

dijkstra_matriz_simples(matriz, idx, nodes, origem_, destino_) ==
    LoopMatrizSimples(matriz, idx, nodes, destino_, Busca0(origem_),
                      NumCelulas(matriz) + 2).ret

\* ------------------------------------------------------------------------
\* scaling
\* ------------------------------------------------------------------------
escalar_grafo(grafo, escala_) ==
    [centro \in DOMAIN grafo |->
        [k \in 1..Len(grafo[centro]) |->
            <<grafo[centro][k][1], FMul(grafo[centro][k][2], escala_)>>]]

\* escalar_matriz returning the cells unscaled
escalar_matriz_copia(matriz, escala_) ==
    [i \in 1..Len(matriz) |-> [j \in 1..Len(matriz[i]) |-> matriz[i][j]]]

escalar_matriz(matriz, escala_) ==
    [i \in 1..Len(matriz) |->
        [j \in 1..Len(matriz[i]) |->
            IF matriz[i][j] # DInf THEN FMul(matriz[i][j], escala_) ELSE DInf]]

\* ------------------------------------------------------------------------
\* the allocator
\* ------------------------------------------------------------------------
\* An Entrega is [destino, peso, prazo, n]: n is the position of the object
\* in the caller's list and stands for the identity of the object.  A
\* Caminhao is [id, capacidade, horas_disponiveis].  A search state of the
\* allocator is [caminhoes, rotas, nao_alocadas, entregas_de], where
\* entregas_de records, for every leg of rotas, the entrega it was appended
\* for.

\* the keys of funcs in benchmark_distancias
NomesLista == {"Lista Simples (Adj)", "Heap (Adj)"}
NomesMatriz == {"Lista Simples (Mat)", "Heap (Mat)"}
Nomes == NomesLista \cup NomesMatriz

\* funcs[nome](o, d) for the closures over grafo and matriz, idx, nodes
funcs(nome_, grafo, matriz, idx, nodes, o, d) ==
    CASE nome_ = "Lista Simples (Adj)" -> dijkstra_lista_simples(grafo, o, d)
      [] nome_ = "Heap (Adj)" -> dijkstra_lista_heap(grafo, o, d)
      [] nome_ = "Lista Simples (Mat)" ->
            dijkstra_matriz_simples(matriz, idx, nodes, o, d)
      [] nome_ = "Heap (Mat)" -> dijkstra_matriz_heap(matriz, idx, nodes, o, d)

\* the search of funcs[nome] after k iterations of its while loop
Fronteira(nome_, grafo, matriz, idx, nodes, o, d, k) ==
    IF k = 0 THEN Busca0(o)
    ELSE CASE nome_ = "Lista Simples (Adj)" ->
                 LoopListaSimples(grafo, d, Busca0(o), k)
           [] nome_ = "Heap (Adj)" -> LoopListaHeap(grafo, d, Busca0(o), k)
           [] nome_ = "Lista Simples (Mat)" ->
                 LoopMatrizSimples(matriz, idx, nodes, d, Busca0(o), k)
           [] nome_ = "Heap (Mat)" ->
                 LoopMatrizHeap(matriz, idx, nodes, d, Busca0(o), k)

\* dist_atual, no of the next iteration of funcs[nome]: heapq.heappop(heap)
\* in the heap strategies, min(fila, key = lambda x: x[0]) in the others
Extrai(nome_, fila) ==
    IF nome_ \in {"Heap (Adj)", "Heap (Mat)"}
    THEN fila[heappop(fila, 1, Len(fila))]
    ELSE fila[MinFila(fila, 1, Len(fila))]

VelocidadeKmH == 50

\* the loop running over the list as passed in
sorted_sem_ordenar(seq) == seq

\* sorted(entregas, key = lambda x: x.prazo): stable
RECURSIVE sorted(_)
sorted(seq) ==
    IF seq = <<>> THEN <<>>
    ELSE LET s == sorted(SubSeq(seq, 1, Len(seq) - 1))
             x == seq[Len(seq)]
             k == Cardinality({i \in 1..Len(s) : s[i].prazo <= x.prazo})
         IN  SubSeq(s, 1, k) \o <<x>> \o SubSeq(s, k + 1, Len(s))

\* the if without its condition on the capacity
CabeSemCapacidade(cam, entrega, horas_viagem) ==
    /\ FLe(horas_viagem, cam.horas_disponiveis)
    /\ FLe(horas_viagem, FromInt(entrega.prazo))

\* the if without its condition on the deadline
CabeSemPrazo(cam, entrega, horas_viagem) ==
    /\ cam.capacidade >= entrega.peso
    /\ FLe(horas_viagem, cam.horas_disponiveis)

\* the three conditions of the if inside the loop over the trucks
Cabe(cam, entrega, horas_viagem) ==
    /\ cam.capacidade >= entrega.peso
    /\ FLe(horas_viagem, cam.horas_disponiveis)
    /\ FLe(horas_viagem, FromInt(entrega.prazo))

\* melhor is <<position of the truck in caminhoes or 0 for None, centro,
\* distancia>>
MelhorNenhum == <<0, "", DInf>>

RECURSIVE LacoCaminhoes(_, _, _, _, _, _, _)
LacoCaminhoes(cams, entrega, centro, distancia, horas_viagem, t, melhor) ==
    IF t > Len(cams) THEN melhor
    ELSE LacoCaminhoes(cams, entrega, centro, distancia, horas_viagem, t + 1,
             IF /\ Cabe(cams[t], entrega, horas_viagem)
                /\ FLt(distancia, melhor[3])
             THEN <<t, centro, distancia>> ELSE melhor)

\* dists[c] is buscar(centros[c], entrega.destino)
RECURSIVE LacoCentros(_, _, _, _, _, _)
LacoCentros(cams, entrega, centros_, dists, c, melhor) ==
    IF c > Len(centros_) THEN melhor
    ELSE LacoCentros(cams, entrega, centros_, dists, c + 1,
             IF dists[c] = DInf THEN melhor
             ELSE LacoCaminhoes(cams, entrega, centros_[c], dists[c],
                                FDivInt(dists[c], VelocidadeKmH), 1, melhor))

\* the statements under if cam_sel, for melhor = <<t, centro, dist_sel>>
Aplicar(est, entrega, t, centro_sel, dist_sel) ==
    [est EXCEPT
        !.caminhoes[t].capacidade = @ - entrega.peso,
        !.caminhoes[t].horas_disponiveis =
            FSub(@, FDivInt(dist_sel, VelocidadeKmH)),
        !.rotas[est.caminhoes[t].id] =
            Append(@, <<centro_sel, entrega.destino, dist_sel>>),
        !.entregas_de[est.caminhoes[t].id] = Append(@, entrega.n)]

\* the if / else on cam_sel with the append to nao_alocadas outside the else
SelecaoSemElse(est, entrega, melhor) ==
    IF melhor[1] # 0
    THEN Aplicar([est EXCEPT !.nao_alocadas = Append(@, entrega)], entrega,
                 melhor[1], melhor[2], melhor[3])
    ELSE [est EXCEPT !.nao_alocadas = Append(@, entrega)]

\* cam_sel, centro_sel, dist_sel = melhor and the if / else on cam_sel
Selecao(est, entrega, melhor) ==
    IF melhor[1] # 0
    THEN Aplicar(est, entrega, melhor[1], melhor[2], melhor[3])
    ELSE [est EXCEPT !.nao_alocadas = Append(@, entrega)]

\* the body of the for loop over the sorted deliveries
AlocarEntrega(est, entrega, centros_, dists) ==
    Selecao(est, entrega,
            LacoCentros(est.caminhoes, entrega, centros_, dists, 1,
                        MelhorNenhum))

\* rotas = {c.id: [] for c in caminhoes}; nao_alocadas = []
Planejar0(cams) ==
    [caminhoes |-> cams,
     rotas |-> [i \in {cams[t].id : t \in 1..Len(cams)} |-> <<>>],
     nao_alocadas |-> <<>>,
     entregas_de |-> [i \in {cams[t].id : t \in 1..Len(cams)} |-> <<>>]]

\* escalas of main: 0.5, 0.75, 1.0, 1.25, 1.5
escalas == [i \in 1..5 |-> FDivInt(FromInt(i + 1), 4)]

\* The strategies are pure functions: their values for the (center,
\* destination) queries on the graphs of the table, scaled by the factors of
\* main, are computed once.  GrafosDaTabela holds <<factor, grafo, mat>>.
GrafosDaTabela ==
    {<<escalas[i], escalar_grafo(gerar_lista_adjacencia, escalas[i]),
       <<escalar_matriz(gerar_matriz_adjacencia[1], escalas[i]),
         gerar_matriz_adjacencia[2], gerar_matriz_adjacencia[3]>>>> :
        i \in 1..Len(escalas)}

TabelaDistancias ==
    {<<g[1], f, c, d, funcs(f, g[2], g[3][1], g[3][2], g[3][3], c, d)>> :
        g \in GrafosDaTabela, f \in Nomes,
        c \in Range(centros_distribuicao), d \in Range(cidades_destino)}

\* the factors of main that scale the table's graphs to grafo and mat
EscalasDe(grafo, mat) ==
    {g[1] : g \in {h \in GrafosDaTabela : h[2] = grafo /\ h[3] = mat}}

\* ks is EscalasDe(grafo, mat)
BuscarEm(nome_, grafo, mat, o, d, ks) ==
    IF /\ ks # {}
       /\ o \in Range(centros_distribuicao)
       /\ d \in Range(cidades_destino)
    THEN (CHOOSE t \in TabelaDistancias :
              t[1] \in ks /\ t[2] = nome_ /\ t[3] = o /\ t[4] = d)[5]
    ELSE funcs(nome_, grafo, mat[1], mat[2], mat[3], o, d)

\* buscar(o, d) for buscar = funcs[nome_] closed over grafo and mat
buscar(nome_, grafo, mat, o, d) ==
    BuscarEm(nome_, grafo, mat, o, d, EscalasDe(grafo, mat))

Distancias(entrega, centros_, nome_, grafo, mat) ==
    [c \in 1..Len(centros_) |->
        buscar(nome_, grafo, mat, centros_[c], entrega.destino)]

RECURSIVE LacoEntregas(_, _, _, _, _, _, _)
LacoEntregas(est, ord, i, centros_, nome_, grafo, mat) ==
    IF i > Len(ord) THEN est
    ELSE LacoEntregas(
             AlocarEntrega(est, ord[i], centros_,
                           Distancias(ord[i], centros_, nome_, grafo, mat)),
             ord, i + 1, centros_, nome_, grafo, mat)

\* a whole call; buscar is funcs[nome_] over grafo and mat
planejar_rotas(entregas_, cams, centros_, nome_, grafo, mat) ==
    LacoEntregas(Planejar0(cams), sorted(entregas_), 1, centros_, nome_,
                 grafo, mat)

\* ------------------------------------------------------------------------
\* state
\* ------------------------------------------------------------------------
VARIABLES
    grafo0,        \* the sparse graph handed to the strategies
    mat0,          \* the dense graph handed to them: <<matriz, idx, nodes>>
    origem,        \* origin of the query
    destino,       \* target of the query
    escala,        \* scale factor of the scaled query, DZero before one
    dist0,         \* strategy name -> result on grafo0 / mat0
    distk,         \* strategy name -> result on the graphs scaled by escala
    entregas,      \* planejar_rotas: the deliveries passed in
    caminhoes,     \* planejar_rotas: the trucks passed in, mutated in place
    caminhoes0,    \* the trucks as they were before the call
    centros,       \* planejar_rotas: the centers passed in
    nome,          \* the strategy buscar is bound to
    pc,            \* "parado", "chamada", "laco", "fim"
    ordenadas,     \* the list the for loop runs over
    pos,           \* how many of ordenadas the loop has processed
    rotas,         \* truck id -> list of <<centro, destino, distancia>>
    nao_alocadas,  \* the deliveries no truck took
    entregas_de,   \* truck id -> for each leg, n of the entrega it carries
    tarefas,       \* the scale-factor tasks handed to the pool
    resultados_list \* what pool.map returned to main

varsGrafo == <<grafo0, mat0>>
varsCaminho == <<origem, destino, escala, dist0, distk>>
varsRotas == <<entregas, caminhoes, caminhoes0, centros, nome, pc, ordenadas,
               pos, rotas, nao_alocadas, entregas_de>>
varsBench == <<tarefas, resultados_list>>
vars == <<varsGrafo, varsCaminho, varsRotas, varsBench>>

\* no allocation under way
RotasParado ==
    /\ entregas = <<>>
    /\ caminhoes = <<>>
    /\ caminhoes0 = <<>>
    /\ centros = <<>>
    /\ nome = ""
    /\ pc = "parado"
    /\ ordenadas = <<>>
    /\ pos = 0
    /\ rotas = <<>>
    /\ nao_alocadas = <<>>
    /\ entregas_de = <<>>

\* no benchmark under way
BenchParado ==
    /\ tarefas = <<>>
    /\ resultados_list = <<>>

\* no query put
CaminhoParado ==
    /\ origem = ""
    /\ destino = ""
    /\ escala = DZero
    /\ dist0 = <<>>
    /\ distk = <<>>

\* ------------------------------------------------------------------------
\* queries on the built-in graphs
\* ------------------------------------------------------------------------
MaxQuartos == 6

\* the factors of main (0.5, 0.75, 1.0, 1.25, 1.5) lie among the multiples
\* of 0.25; 0.7 and 1.1 are factors that binary64 does not hold exactly
EscalasExatas == {FDivInt(FromInt(n), 4) : n \in 1..MaxQuartos}

Escalas == EscalasExatas \cup {FDivInt(FromInt(7), 10), FDivInt(FromInt(11), 10)}

\* the query is an input: any pair of nodes of the table
InitCaminho ==
    /\ grafo0 = gerar_lista_adjacencia
    /\ mat0 = gerar_matriz_adjacencia
    /\ origem \in Range(NodesTabela)
    /\ destino \in Range(NodesTabela)
    /\ escala = DZero
    /\ dist0 = <<>>
    /\ distk = <<>>
    /\ RotasParado
    /\ BenchParado

\* the query, put to every strategy on the graphs as built
Consultar ==
    /\ dist0 = <<>>
    /\ dist0' = [f \in Nomes |->
                    funcs(f, grafo0, mat0[1], mat0[2], mat0[3], origem,
                          destino)]
    /\ UNCHANGED <<varsGrafo, origem, destino, escala, distk, varsRotas,
                   varsBench>>

\* the same query on the graphs scaled as benchmark_distancias scales them
ConsultarEscalado(k) ==
    /\ dist0 # <<>>
    /\ escala = DZero
    /\ escala' = k
    /\ LET grafo == escalar_grafo(grafo0, k)
           matriz == escalar_matriz(mat0[1], k)
       IN  distk' = [f \in Nomes |->
                        funcs(f, grafo, matriz, mat0[2], mat0[3], origem,
                              destino)]
    /\ UNCHANGED <<varsGrafo, origem, destino, dist0, varsRotas, varsBench>>

NextCaminho ==
    \/ Consultar
    \/ \E k \in Escalas : ConsultarEscalado(k)

SpecCaminho == InitCaminho /\ [][NextCaminho]_vars

Centros == Range(centros_distribuicao)
Cidades == Range(cidades_destino)

\* C1: for a (center, destination) pair of the table, the dense-graph
\* strategies return the same distance as the sparse-graph strategies.
C1_DensoIgualEsparso ==
    (dist0 # <<>> /\ origem \in Centros /\ destino \in Cidades)
        => \A m \in NomesMatriz, l \in NomesLista : dist0[m] = dist0[l]

\* C5 as stated: for every scale factor, every strategy returns on the scaled
\* graph exactly the factor times its result on the unscaled graph, and an
\* unreachable pair stays unreachable.
C5_EscalaQualquer ==
    distk # <<>>
        => \A f \in Nomes :
              IF dist0[f] = DInf THEN distk[f] = DInf
              ELSE distk[f] = FMul(escala, dist0[f])

\* C5 amended: the same for the scale factors that are multiples of 0.25.
C5_EscalaExata ==
    (distk # <<>> /\ escala \in EscalasExatas)
        => \A f \in Nomes :
              IF dist0[f] = DInf THEN distk[f] = DInf
              ELSE distk[f] = FMul(escala, dist0[f])

\* a scaled query over a two-leg path: Rio de Janeiro to Salvador by 0.75
C5_Witness ==
    /\ distk # <<>>
    /\ escala = FDivInt(FromInt(3), 4)
    /\ origem = "Rio de Janeiro"
    /\ destino = "Salvador"
    /\ dist0["Heap (Adj)"] # DInf
    /\ distk["Heap (Adj)"] # dist0["Heap (Adj)"]
    /\ distk["Heap (Mat)"] = DInf

\* C6: for a query from a destination to a center the dense-graph strategies
\* return unreachable and the sparse-graph strategies return the finite
\* distance they return for the reversed query; Sao Paulo - Rio de Janeiro
\* is 450 both ways on the sparse graph, 450 forward and unreachable in
\* reverse on the dense graph.
C6_DestinoParaCentro ==
    /\ (dist0 # <<>> /\ origem \in Cidades /\ destino \in Centros)
          => /\ \A m \in NomesMatriz : dist0[m] = DInf
             /\ \A l \in NomesLista :
                   /\ dist0[l] # DInf
                   /\ dist0[l] = funcs(l, grafo0, mat0[1], mat0[2], mat0[3],
                                       destino, origem)
    /\ (dist0 # <<>> /\ origem = "São Paulo" /\ destino = "Rio de Janeiro")
          => \A n \in Nomes : dist0[n] = FromInt(450)
    /\ (dist0 # <<>> /\ origem = "Rio de Janeiro" /\ destino = "São Paulo")
          => /\ \A l \in NomesLista : dist0[l] = FromInt(450)
             /\ \A m \in NomesMatriz : dist0[m] = DInf

C6_Witness ==
    /\ dist0 # <<>>
    /\ origem = "Rio de Janeiro"
    /\ destino = "São Paulo"
    /\ dist0["Heap (Mat)"] = DInf
    /\ dist0["Heap (Adj)"] = FromInt(450)

\* the iterations of a search looked at
MaxIteracoes == 4

\* the candidates of fila at the least distance
Empatados(fila) ==
    {c \in Range(fila) : \A x \in Range(fila) : ~FLt(x[1], c[1])}

\* C11: in all four strategies, when several candidates of the frontier share
\* the least distance, the candidate extracted next is the one whose node
\* identifier is the least in the order of the identifiers.
C11_MenorIdentificador ==
    dist0 # <<>>
        => \A f \in Nomes, k \in 0..MaxIteracoes :
              LET st == Fronteira(f, grafo0, mat0[1], mat0[2], mat0[3],
                                  origem, destino, k)
              IN  (~st.fim /\ st.fila # <<>>)
                      => \A c \in Empatados(st.fila) :
                            Rank[Extrai(f, st.fila)[2]] <= Rank[c[2]]

\* ------------------------------------------------------------------------
\* queries on arbitrary sparse graphs
\* ------------------------------------------------------------------------
MaxPeso == 2

NosPequenos == <<"a", "b", "c">>

ParesPequenos ==
    {p \in Range(NosPequenos) \X Range(NosPequenos) : p[1] # p[2]}

Inverte(seq) == [k \in 1..Len(seq) |-> seq[Len(seq) + 1 - k]]

\* the adjacency mapping with an edge u -> v of weight w[u, v] wherever
\* w[u, v] >= 0; a node without edges has no key; inv reverses every list
GrafoDe(w, inv) ==
    LET viz(u) == SelectSeq(NosPequenos,
                            LAMBDA v : v # u /\ w[<<u, v>>] >= 0)
        adj(u) == [k \in 1..Len(viz(u)) |->
                      <<viz(u)[k], FromInt(w[<<u, viz(u)[k]>>])>>]
    IN  [u \in {x \in Range(NosPequenos) : viz(x) # <<>>} |->
            IF inv THEN Inverte(adj(u)) ELSE adj(u)]

\* any graph over three nodes with weights 0..MaxPeso; the target may be a
\* node the graph does not hold
InitGrafo ==
    /\ \E w \in [ParesPequenos -> -1..MaxPeso], inv \in BOOLEAN :
          grafo0 = GrafoDe(w, inv)
    /\ mat0 = <<<<>>, <<>>, <<>>>>
    /\ origem \in Range(NosPequenos)
    /\ destino \in Range(NosPequenos) \cup {"d"}
    /\ escala = DZero
    /\ dist0 = <<>>
    /\ distk = <<>>
    /\ RotasParado
    /\ BenchParado

ConsultarLista ==
    /\ dist0 = <<>>
    /\ dist0' = [f \in NomesLista |->
                    funcs(f, grafo0, mat0[1], mat0[2], mat0[3], origem,
                          destino)]
    /\ UNCHANGED <<varsGrafo, origem, destino, escala, distk, varsRotas,
                   varsBench>>

NextGrafo == ConsultarLista

SpecGrafo == InitGrafo /\ [][NextGrafo]_vars

\* C7: on any sparse graph with non-negative weights dijkstra_lista_heap and
\* dijkstra_lista_simples return the same value for every query.
C7_HeapIgualSimples ==
    dist0 # <<>> => dist0["Heap (Adj)"] = dist0["Lista Simples (Adj)"]

\* a query where the direct edge a -> c is longer than the path over b
C7_Witness ==
    /\ dist0 # <<>>
    /\ origem = "a"
    /\ destino = "c"
    /\ "a" \in DOMAIN grafo0
    /\ grafo0["a"] = <<<<"c", FromInt(2)>>, <<"b", FromInt(0)>>>>
    /\ dist0["Heap (Adj)"] = FromInt(1)

\* ------------------------------------------------------------------------
\* planejar_rotas, one delivery at a time
\* ------------------------------------------------------------------------
MaxEntregas == 2
MaxCaminhoes == 2

\* the graphs a table with the single pair ("a", "b") : 100 gives
GrafoCenario ==
    [n \in {"a", "b"} |->
        IF n = "a" THEN <<<<"b", FromInt(100)>>>> ELSE <<<<"a", FromInt(100)>>>>]

MatCenario ==
    << << <<DInf, FromInt(100)>>, <<DInf, DInf>> >>,
       [n \in {"a", "b"} |-> IF n = "a" THEN 1 ELSE 2],
       <<"a", "b">> >>

SeqsAte(S, n) == UNION {[1..k -> S] : k \in 0..n}

\* deliveries to two cities of the table: heavy ones due in 10 or 20 hours
\* and a light one due in 1 hour
CargasTabela ==
    {[destino |-> d, peso |-> q[1], prazo |-> q[2]] :
        d \in {"Goiânia", "Natal"},
        q \in {<<300, 10>>, <<300, 20>>, <<100, 1>>}}

\* deliveries to the one city of the small table, 2 hours away
CargasCenario ==
    {[destino |-> "b", peso |-> 100, prazo |-> z] : z \in {1, 2}}

\* <<capacidade, horas_disponiveis>>: a truck that takes one heavy delivery
\* and one that takes two, but not two trips of six hours
Frota == {<<500, 10>>, <<700, 11>>}

ComoEntregas(seq) ==
    [i \in 1..Len(seq) |->
        [destino |-> seq[i].destino, peso |-> seq[i].peso,
         prazo |-> seq[i].prazo, n |-> i]]

\* gerar_caminhoes numbers the trucks 0, 1, ...
ComoCaminhoes(seq) ==
    [i \in 1..Len(seq) |->
        [id |-> i - 1, capacidade |-> seq[i][1],
         horas_disponiveis |-> FromInt(seq[i][2])]]

InitRotas ==
    /\ \/ /\ grafo0 = gerar_lista_adjacencia
          /\ mat0 = gerar_matriz_adjacencia
          /\ centros = centros_distribuicao
          /\ \E es \in SeqsAte(CargasTabela, MaxEntregas) :
                entregas = ComoEntregas(es)
       \/ /\ grafo0 = GrafoCenario
          /\ mat0 = MatCenario
          /\ centros = <<"a">>
          /\ \E es \in SeqsAte(CargasCenario, MaxEntregas) :
                entregas = ComoEntregas(es)
    /\ \E cs \in SeqsAte(Frota, MaxCaminhoes) :
          /\ cs # <<>>
          /\ caminhoes = ComoCaminhoes(cs)
    /\ caminhoes0 = caminhoes
    /\ nome \in Nomes
    /\ pc = "chamada"
    /\ ordenadas = <<>>
    /\ pos = 0
    /\ rotas = <<>>
    /\ nao_alocadas = <<>>
    /\ entregas_de = <<>>
    /\ CaminhoParado
    /\ BenchParado

\* entry: the two result containers and the sorted list
Ordenar ==
    /\ pc = "chamada"
    /\ pc' = "laco"
    /\ ordenadas' = sorted(entregas)
    /\ pos' = 0
    /\ rotas' = Planejar0(caminhoes).rotas
    /\ nao_alocadas' = Planejar0(caminhoes).nao_alocadas
    /\ entregas_de' = Planejar0(caminhoes).entregas_de
    /\ UNCHANGED <<varsGrafo, varsCaminho, varsBench, entregas, caminhoes,
                   caminhoes0, centros, nome>>

\* est holds the trucks and the two containers after a step
Gravar(est) ==
    /\ caminhoes' = est.caminhoes
    /\ rotas' = est.rotas
    /\ nao_alocadas' = est.nao_alocadas
    /\ entregas_de' = est.entregas_de

\* the trucks and the two containers as they stand
Estado ==
    [caminhoes |-> caminhoes, rotas |-> rotas, nao_alocadas |-> nao_alocadas,
     entregas_de |-> entregas_de]

\* one iteration of the for loop
Alocar ==
    /\ pc = "laco"
    /\ pos < Len(ordenadas)
    /\ Gravar(AlocarEntrega(Estado, ordenadas[pos + 1], centros,
                            Distancias(ordenadas[pos + 1], centros, nome,
                                       grafo0, mat0)))
    /\ pos' = pos + 1
    /\ UNCHANGED <<varsGrafo, varsCaminho, varsBench, entregas, caminhoes0,
                   centros, nome, pc, ordenadas>>

\* return rotas, nao_alocadas
Retornar ==
    /\ pc = "laco"
    /\ pos = Len(ordenadas)
    /\ pc' = "fim"
    /\ UNCHANGED <<varsGrafo, varsCaminho, varsBench, entregas, caminhoes,
                   caminhoes0, centros, nome, ordenadas, pos, rotas,
                   nao_alocadas, entregas_de>>

NextRotas == Ordenar \/ Alocar \/ Retornar

SpecRotas == InitRotas /\ [][NextRotas]_vars

\* the call has made its containers
EmCurso == pc \in {"laco", "fim"}

\* the entrega of the caller's list that leg k of truck id was appended for
EntregaDe(id, k) == entregas[entregas_de[id][k]]

\* x holds a whole number of km below 2^26
EhKm(x) ==
    \/ x = DZero
    \/ /\ x[1] = 1
       /\ x[2] \in 0..25
       /\ x[4] = 0
       /\ x[3] % Pow2(25 - x[2]) = 0

\* that number
Km(x) == IF x = DZero THEN 0 ELSE x[3] \div Pow2(25 - x[2])

RECURSIVE SomaPesos(_, _)
SomaPesos(id, k) ==
    IF k = 0 THEN 0 ELSE SomaPesos(id, k - 1) + EntregaDe(id, k).peso

RECURSIVE SomaKm(_, _)
SomaKm(legs, k) ==
    IF k = 0 THEN 0 ELSE SomaKm(legs, k - 1) + Km(legs[k][3])

\* h less the travel times of the first k legs, taken off one by one
RECURSIVE Restam(_, _, _)
Restam(h, legs, k) ==
    IF k = 0 THEN h
    ELSE FSub(Restam(h, legs, k - 1), FDivInt(legs[k][3], VelocidadeKmH))

\* C2: at every step of planejar_rotas and at its return, for every truck:
\* its remaining capacity is its capacity before the call less the weights
\* of the deliveries assigned to it and is not negative; its remaining hours
\* are its hours before the call less the travel times (distance / 50) of its
\* legs and are not negative; so the weights sum to at most the capacity
\* before the call and the distances to at most 50 km for each hour it had.
C2_CapacidadeEHoras ==
    EmCurso =>
        \A t \in 1..Len(caminhoes) :
            LET id == caminhoes[t].id
                legs == rotas[id]
                antes == caminhoes0[t]
            IN  /\ antes.id = id
                /\ Len(entregas_de[id]) = Len(legs)
                /\ caminhoes[t].capacidade =
                       antes.capacidade - SomaPesos(id, Len(legs))
                /\ caminhoes[t].capacidade >= 0
                /\ SomaPesos(id, Len(legs)) <= antes.capacidade
                /\ caminhoes[t].horas_disponiveis =
                       Restam(antes.horas_disponiveis, legs, Len(legs))
                /\ FLe(DZero, caminhoes[t].horas_disponiveis)
                /\ \A k \in 1..Len(legs) : EhKm(legs[k][3])
                /\ EhKm(antes.horas_disponiveis)
                /\ SomaKm(legs, Len(legs)) <=
                       VelocidadeKmH * Km(antes.horas_disponiveis)

\* a truck of 700 kg and 11 hours returned with two legs of 300 kg
C2_Witness ==
    /\ pc = "fim"
    /\ \E t \in 1..Len(caminhoes) :
          /\ caminhoes0[t].capacidade = 700
          /\ Len(rotas[caminhoes[t].id]) = 2
          /\ caminhoes[t].capacidade = 100
          /\ FLt(caminhoes[t].horas_disponiveis, FromInt(3))
          /\ FLt(DZero, caminhoes[t].horas_disponiveis)

\* the legs that were appended for the entrega at position n of the input
LegsDe(n) ==
    {p \in UNION {{id} \X (1..Len(entregas_de[id])) : id \in DOMAIN rotas} :
        entregas_de[p[1]][p[2]] = n}

\* the places of nao_alocadas that hold the entrega at position n
RecusasDe(n) == {k \in 1..Len(nao_alocadas) : nao_alocadas[k].n = n}

NumLegs == Cardinality(UNION {{id} \X (1..Len(rotas[id])) : id \in DOMAIN rotas})

\* C3: when planejar_rotas returns, every delivery passed in has either one
\* leg in one truck's route or one place in the unallocated list, never both
\* and never neither; the legs and the unallocated deliveries together are
\* as many as the deliveries passed in.
C3_CadaEntregaUmaVez ==
    pc = "fim" =>
        /\ \A id \in DOMAIN rotas : Len(entregas_de[id]) = Len(rotas[id])
        /\ \A n \in 1..Len(entregas) :
              /\ Cardinality(LegsDe(n)) + Cardinality(RecusasDe(n)) = 1
              /\ \A p \in LegsDe(n) : rotas[p[1]][p[2]][2] = entregas[n].destino
              /\ \A k \in RecusasDe(n) : nao_alocadas[k] = entregas[n]
        /\ NumLegs + Len(nao_alocadas) = Len(entregas)

\* a return with one delivery on a truck and the other one refused
C3_Witness ==
    /\ pc = "fim"
    /\ Len(entregas) = 2
    /\ NumLegs = 1
    /\ Len(nao_alocadas) = 1
    /\ LegsDe(nao_alocadas[1].n) = {}

\* ordenadas holds the deliveries of the input by ascending deadline, those
\* of equal deadline in the order of the input
EmOrdemDePrazo ==
    /\ Len(ordenadas) = Len(entregas)
    /\ {ordenadas[i] : i \in 1..Len(ordenadas)} =
           {entregas[i] : i \in 1..Len(entregas)}
    /\ \A i, j \in 1..Len(ordenadas) :
          i < j => \/ ordenadas[i].prazo < ordenadas[j].prazo
                   \/ /\ ordenadas[i].prazo = ordenadas[j].prazo
                      /\ ordenadas[i].n < ordenadas[j].n

\* some center has a leg to the destination that the truck can take
ViavelSozinha(cam, entrega) ==
    \E c \in 1..Len(centros) :
        LET d == buscar(nome, grafo0, mat0, centros[c], entrega.destino)
        IN  d # DInf /\ Cabe(cam, entrega, FDivInt(d, VelocidadeKmH))

\* one truck, a delivery due in 10 hours and one due in 20, each feasible
\* alone, the truck's capacity below the two weights together
DoisPrazosUmCaminhao ==
    /\ Len(caminhoes0) = 1
    /\ Len(entregas) = 2
    /\ {entregas[1].prazo, entregas[2].prazo} = {10, 20}
    /\ ViavelSozinha(caminhoes0[1], entregas[1])
    /\ ViavelSozinha(caminhoes0[1], entregas[2])
    /\ caminhoes0[1].capacidade < entregas[1].peso + entregas[2].peso

\* C4: the loop of planejar_rotas runs over the deliveries by ascending
\* deadline, equal deadlines in input order, whatever the input order; with
\* one truck that has capacity for only one of two deliveries due in 10 and
\* in 20 hours, each feasible alone, the one due in 10 hours is on the truck
\* and the one due in 20 hours is unallocated, in both input orders.
C4_OrdemDePrazo ==
    /\ EmCurso => EmOrdemDePrazo
    /\ (pc = "fim" /\ DoisPrazosUmCaminhao) =>
          \A n \in 1..2 :
              IF entregas[n].prazo = 10
              THEN /\ entregas_de[caminhoes0[1].id] = <<n>>
                   /\ RecusasDe(n) = {}
              ELSE /\ nao_alocadas = <<entregas[n]>>
                   /\ LegsDe(n) = {}

\* the scenario with the delivery due in 20 hours first in the input
C4_Witness ==
    /\ pc = "fim"
    /\ DoisPrazosUmCaminhao
    /\ entregas[1].prazo = 20
    /\ entregas_de[caminhoes0[1].id] = <<2>>
    /\ nao_alocadas = <<entregas[1]>>

\* the destination of the entrega is reachable at 100 km and no nearer, and
\* the entrega weighs 100 kg and is due in 1 hour
UmaHoraParaCemKm(entrega) ==
    /\ entrega.peso = 100
    /\ entrega.prazo = 1
    /\ \A c \in 1..Len(centros) :
          buscar(nome, grafo0, mat0, centros[c], entrega.destino)
              \in {DInf, FromInt(100)}
    /\ \E c \in 1..Len(centros) :
          buscar(nome, grafo0, mat0, centros[c], entrega.destino)
              = FromInt(100)

\* the step of the loop for one entrega
PassoDe(entrega) ==
    /\ pc = "laco"
    /\ pos < Len(ordenadas)
    /\ entrega = ordenadas[pos + 1]
    /\ pos' = pos + 1

\* C8: a step of planejar_rotas that gives a delivery to a truck appends a
\* leg whose travel time (distance / 50) is at most the delivery's deadline;
\* the step for a delivery of 100 kg due in 1 hour whose destination is
\* reachable only at 100 km appends it to the unallocated list, adds no leg
\* and leaves the capacity and the hours of every truck as they were.
C8_PrazoDaViagem ==
    [][\A n \in 1..Len(entregas) :
           PassoDe(entregas[n]) =>
               /\ \A id \in DOMAIN rotas :
                     rotas'[id] # rotas[id] =>
                         /\ Len(rotas'[id]) = Len(rotas[id]) + 1
                         /\ FLe(FDivInt(rotas'[id][Len(rotas'[id])][3],
                                        VelocidadeKmH),
                                FromInt(entregas[n].prazo))
               /\ UmaHoraParaCemKm(entregas[n]) =>
                     /\ rotas' = rotas
                     /\ caminhoes' = caminhoes
                     /\ nao_alocadas' = Append(nao_alocadas, entregas[n])
               /\ nao_alocadas' = nao_alocadas => rotas' # rotas]_vars

\* the call returned with the delivery due in 1 hour refused by a truck of
\* 700 kg and 11 hours, which took the delivery due in 2 hours
C8_Witness ==
    /\ pc = "fim"
    /\ grafo0 = GrafoCenario
    /\ Len(entregas) = 2
    /\ UmaHoraParaCemKm(entregas[1])
    /\ nao_alocadas = <<entregas[1]>>
    /\ Len(caminhoes) = 1
    /\ caminhoes0[1].capacidade = 700
    /\ caminhoes[1].capacidade = 600
    /\ entregas_de[caminhoes[1].id] = <<2>>

\* ------------------------------------------------------------------------
\* main: the summary run, then benchmark_distancias in the tasks of the pool
\* ------------------------------------------------------------------------
MaxTarefas == 2

\* funcs.items() yields the strategies in the order of the dict literal
OrdemFuncs ==
    <<"Lista Simples (Adj)", "Heap (Adj)", "Lista Simples (Mat)",
      "Heap (Mat)">>

\* Traced memory is counted in blocks, one for each object that the harness
\* and planejar_rotas allocate after tracemalloc.start(): the copied list
\* and its trucks, the dict rotas and its lists, nao_alocadas, the sorted
\* list, each leg tuple.  A call of buscar is charged its frontier (heap or
\* fila) and its set visitados; the sizes in bytes are left out.
BlocosDeBusca == 2

\* the block count when planejar_rotas has returned and its argument is
\* released: the dict rotas with one list per truck, nao_alocadas, one tuple
\* per leg
BlocosNoFim(est) ==
    LET n == Len(est.caminhoes)
        legs == Cardinality(UNION {{id} \X (1..Len(est.rotas[id])) :
                                       id \in DOMAIN est.rotas})
    IN  1 + n + 1 + legs

\* the highest block count during the call: on top of the above, the copy
\* made by copy.deepcopy (a list and its trucks) and the sorted list live
\* throughout the loop, and each call of buscar holds its frontier and its
\* visitados while the legs of the earlier deliveries exist
BlocosNoPico(est, ord) ==
    LET n == Len(est.caminhoes)
        ultima == ord[Len(ord)].n
        legs_ultima ==
            Cardinality(UNION {{id} \X {k \in 1..Len(est.entregas_de[id]) :
                                            est.entregas_de[id][k] = ultima} :
                                   id \in DOMAIN est.entregas_de})
    IN  IF ord = <<>> THEN BlocosNoFim(est) + (1 + n) + 1
        ELSE BlocosNoFim(est) - legs_ultima + (1 + n) + 1 + BlocosDeBusca

\* tracemalloc.get_traced_memory() after the call: <<current, peak>>
get_traced_memory(est, ord) == <<BlocosNoFim(est), BlocosNoPico(est, ord)>>

\* the argument that takes the place of copy.deepcopy(caminhoes) when the
\* list itself is passed
sem_deepcopy(objs, ref) == <<objs, ref>>

\* copy.deepcopy(caminhoes): objs holds the truck lists of the process, ref
\* names the list to copy; gives the store with the copy and the copy's name
copy_deepcopy(objs, ref) == <<Append(objs, objs[ref]), Len(objs) + 1>>

\* memoria, _ = tracemalloc.get_traced_memory(); memoria / 1024
mem_KB(traced) == FDivInt(FromInt(traced[1]), 1024)

\* a delivery that only the graph scaled by 0.5 brings within its deadline
\* and one that every scale does
CargasBench ==
    {[destino |-> "Natal", peso |-> 300, prazo |-> 4],
     [destino |-> "Goiânia", peso |-> 300, prazo |-> 10]}

\* main after gerar_entregas and gerar_caminhoes; buscar is
\* partial(dijkstra_lista_heap, grafo)
InitBench ==
    /\ grafo0 = gerar_lista_adjacencia
    /\ mat0 = gerar_matriz_adjacencia
    /\ centros = centros_distribuicao
    /\ \E es \in SeqsAte(CargasBench, MaxEntregas) :
          entregas = ComoEntregas(es)
    /\ \E cs \in SeqsAte(Frota, MaxCaminhoes) :
          /\ cs # <<>>
          /\ caminhoes = ComoCaminhoes(cs)
    /\ caminhoes0 = caminhoes
    /\ nome = "Heap (Adj)"
    /\ pc = "principal"
    /\ ordenadas = <<>>
    /\ pos = 0
    /\ rotas = <<>>
    /\ nao_alocadas = <<>>
    /\ entregas_de = <<>>
    /\ CaminhoParado
    /\ BenchParado

\* rotas, nao_alocadas = planejar_rotas(entregas, caminhoes, ...) of main,
\* on the caller's own trucks
Resumo ==
    /\ pc = "principal"
    /\ Gravar(planejar_rotas(entregas, caminhoes, centros, nome, grafo0, mat0))
    /\ ordenadas' = sorted(entregas)
    /\ pos' = Len(entregas)
    /\ pc' = "resumido"
    /\ UNCHANGED <<varsGrafo, varsCaminho, varsBench, entregas, caminhoes0,
                   centros, nome>>

\* pool.map(rodar_uma_escala, tarefas): every task gets its arguments
\* pickled, so its own list of trucks; caminhoes0 keeps the caller's values
Lancar ==
    /\ pc = "resumido"
    /\ tarefas' =
          [i \in 1..MaxTarefas |->
              [escala |-> escalas[i], caminhoes |-> caminhoes, feitas |-> 0,
               resultados |-> <<>>, inicio |-> <<>>, rastreio |-> <<>>]]
    /\ caminhoes0' = caminhoes
    /\ pc' = "pool"
    /\ UNCHANGED <<varsGrafo, varsCaminho, resultados_list, entregas,
                   caminhoes, centros, nome, ordenadas, pos, rotas,
                   nao_alocadas, entregas_de>>

\* the end of a pass in the task of escalas[i]: resultados[nome] is set;
\* inicio and rastreio keep, for each pass, the trucks planejar_rotas was
\* handed and what get_traced_memory() returned
Registrar(i, func, passados, objs, traced) ==
    tarefas' =
        [tarefas EXCEPT ![i] =
            [@ EXCEPT
                !.caminhoes = objs[1],
                !.feitas = @ + 1,
                !.resultados =
                    Append(@, [nome |-> func, mem_KB |-> mem_KB(traced)]),
                !.inicio = Append(@, passados),
                !.rastreio = Append(@, traced)]]

\* planejar_rotas has returned est, having written to the trucks of its
\* argument arg = <<objs, ref>>
Medir(i, func, arg, est) ==
    Registrar(i, func, arg[1][arg[2]],
              [arg[1] EXCEPT ![arg[2]] = est.caminhoes],
              get_traced_memory(est, sorted(entregas)))

\* the call of planejar_rotas with func over the graphs scaled by escala
Chamar(i, func, escala_, arg) ==
    Medir(i, func, arg,
          planejar_rotas(entregas, arg[1][arg[2]], centros_distribuicao, func,
                         escalar_grafo(grafo0, escala_),
                         <<escalar_matriz(mat0[1], escala_), mat0[2],
                           mat0[3]>>))

\* one pass of the loop over funcs.items() in the task of escalas[i]; the
\* task's list of trucks is the one object of its store
Rodar(i) ==
    /\ pc = "pool"
    /\ tarefas[i].feitas < Len(OrdemFuncs)
    /\ Chamar(i, OrdemFuncs[tarefas[i].feitas + 1], tarefas[i].escala,
              copy_deepcopy(<<tarefas[i].caminhoes>>, 1))
    /\ UNCHANGED <<varsGrafo, varsCaminho, varsRotas, resultados_list>>

\* pool.map returns when every task has returned (escala, resultados)
Coletar ==
    /\ pc = "pool"
    /\ \A i \in DOMAIN tarefas : tarefas[i].feitas = Len(OrdemFuncs)
    /\ resultados_list' =
          [i \in DOMAIN tarefas |-> <<tarefas[i].escala, tarefas[i].resultados>>]
    /\ pc' = "coletado"
    /\ UNCHANGED <<varsGrafo, varsCaminho, tarefas, entregas, caminhoes,
                   caminhoes0, centros, nome, ordenadas, pos, rotas,
                   nao_alocadas, entregas_de>>

NextBench ==
    \/ Resumo
    \/ Lancar
    \/ \E i \in 1..MaxTarefas : Rodar(i)
    \/ Coletar

SpecBench == InitBench /\ [][NextBench]_vars

\* C9: for each strategy, the mem_KB that benchmark_distancias records is
\* the peak of the traced memory during that strategy's run of
\* planejar_rotas, in KB.
C9_MemoriaDePico ==
    \A i \in DOMAIN tarefas :
        \A k \in 1..Len(tarefas[i].resultados) :
            tarefas[i].resultados[k].mem_KB =
                FDivInt(FromInt(tarefas[i].rastreio[k][2]), 1024)

\* C10: benchmark_distancias leaves the trucks of its caller as they were,
\* in main and in every task, and every run of planejar_rotas in every task
\* starts from trucks equal to the caller's, whatever the runs before it and
\* the other tasks assigned.
C10_CaminhoesDoChamador ==
    pc \in {"pool", "coletado"} =>
        /\ caminhoes = caminhoes0
        /\ \A i \in DOMAIN tarefas :
              /\ tarefas[i].caminhoes = caminhoes0
              /\ \A k \in 1..Len(tarefas[i].inicio) :
                    tarefas[i].inicio[k] = caminhoes0

\* all runs done; the task of scale 0.5 gave a leg to a truck in each of its
\* runs and the task of scale 0.75 gave none
C10_Witness ==
    /\ pc = "coletado"
    /\ Len(entregas) = 1
    /\ entregas[1].prazo = 4
    /\ \A k \in 1..Len(OrdemFuncs) :
          /\ tarefas[1].rastreio[k][1] = Len(caminhoes0) + 3
          /\ tarefas[2].rastreio[k][1] = Len(caminhoes0) + 2
====
